---- MODULE Spec2Model ----
(***************************************************************************)
(* Model of the JPEG metadata decoder of src/formats/jpeg.rs: the marker   *)
(* scan loop of Metadata::load, the Exif section reader (ExifSection::load,*)
(* TiffHeader::load), the IFD decoder (Tag::load_all) and the typed tag    *)
(* accessors (Tag::get_short, Tag::get_ascii).  Bytes are the integers     *)
(* 0..255, a buffer is a sequence of bytes, a cursor is a 0-based count of *)
(* the bytes already consumed.                                             *)
(***************************************************************************)
EXTENDS Integers, Sequences, FiniteSets, TLC

VARIABLES
    input,        \* the byte stream handed to Metadata::load
    pos,          \* number of bytes of input consumed by the reader r
    dimensions,   \* Option<(u16, u16)>, as (w, h)
    orientation,  \* Orientation
    date_time,    \* Option<String>
    make,         \* Option<String>
    model,        \* Option<String>
    marker_type,  \* loop local: type byte of the last marker read
    size,         \* loop local: payload size of the last marker framed
    segment,      \* loop local: payload buffer of the last marker framed
    exif_section, \* loop local: Option of the last result of ExifSection::load
    result        \* what the call has returned so far

vars == <<input, pos, dimensions, orientation, date_time, make, model,
          marker_type, size, segment, exif_section, result>>

----------------------------------------------------------------------------
(* Option and Result values *)

None == <<>>

Some(x) == <<x>>

Ok(v) == [ok |-> TRUE, val |-> v]

Err(kind, why) == [ok |-> FALSE, val |-> [kind |-> kind, why |-> why]]

unexpected_eof(why) == Err("UnexpectedEof", why)

invalid_format(why) == Err("InvalidFormat", why)

Min(a, b) == IF a < b THEN a ELSE b

----------------------------------------------------------------------------
(* Reads on a buffer with a cursor *)

\* r.take(n).read_to_end(..): up to n bytes, fewer at the end of the buffer, never an error
take_read_to_end(buf, cur, n) == SubSeq(buf, cur + 1, Min(cur + n, Len(buf)))

read_u8(buf, cur) ==
    IF cur + 1 > Len(buf) THEN unexpected_eof("read_u8") ELSE Ok(buf[cur + 1])

read_u16(byte_order, buf, cur) ==
    IF cur + 2 > Len(buf) THEN unexpected_eof("read_u16")
    ELSE IF byte_order = "LittleEndian"
         THEN Ok(buf[cur + 1] + 256 * buf[cur + 2])
         ELSE Ok(256 * buf[cur + 1] + buf[cur + 2])

read_u32(byte_order, buf, cur) ==
    IF cur + 4 > Len(buf) THEN unexpected_eof("read_u32")
    ELSE IF byte_order = "LittleEndian"
         THEN Ok(buf[cur + 1] + 256 * buf[cur + 2]
                 + 65536 * buf[cur + 3] + 16777216 * buf[cur + 4])
         ELSE Ok(16777216 * buf[cur + 1] + 65536 * buf[cur + 2]
                 + 256 * buf[cur + 3] + buf[cur + 4])

\* x as i32 of a value 0 <= x < 2^32
MaxI32 == 2147483647

AsI32(x) == IF x <= MaxI32 THEN x ELSE ((x - MaxI32) - MaxI32) - 2

----------------------------------------------------------------------------
(* Orientation and TagDatatype *)

Orientation_new(v) ==
    CASE v = 1 -> "Normal"
      [] v = 2 -> "MirrorHorizontal"
      [] v = 3 -> "Rotate180"
      [] v = 4 -> "FlipVertical"
      [] v = 5 -> "Transpose"
      [] v = 6 -> "Rotate90"
      [] v = 7 -> "Transverse"
      [] v = 8 -> "Rotate270"
      [] OTHER -> "Unspecified"

TagDatatype_new(datatype) ==
    CASE datatype = 1 -> Ok("Byte")
      [] datatype = 2 -> Ok("Ascii")
      [] datatype = 3 -> Ok("Short")
      [] datatype = 4 -> Ok("Long")
      [] datatype = 5 -> Ok("Rational")
      [] datatype = 7 -> Ok("Undefined")
      [] datatype = 9 -> Ok("SignedLong")
      [] datatype = 10 -> Ok("SignedRational")
      [] OTHER -> invalid_format("invalid tag datatype")

TagDatatype_len(datatype) ==
    CASE datatype = "Byte" -> 1
      [] datatype = "Ascii" -> 1
      [] datatype = "Short" -> 2
      [] datatype = "Long" -> 4
      [] datatype = "Rational" -> 8
      [] datatype = "Undefined" -> 1
      [] datatype = "SignedLong" -> 4
      [] datatype = "SignedRational" -> 8

----------------------------------------------------------------------------
(* Tag and its typed accessors *)

Tag_new(id, datatype, data, byte_order) ==
    [id |-> id, datatype |-> datatype, data |-> data, byte_order |-> byte_order]

\* get_short decoding with a fixed byte order instead of the tag's own
get_short_little_endian(tag) ==
    IF tag.datatype = "Short" /\ Len(tag.data) = 2
    THEN read_u16("LittleEndian", tag.data, 0)
    ELSE invalid_format("tag has invalid datatype or count")

get_short(tag) ==
    IF tag.datatype = "Short" /\ Len(tag.data) = 2
    THEN read_u16(tag.byte_order, tag.data, 0)
    ELSE invalid_format("tag has invalid datatype or count")

\* String::from_utf8: TRUE iff s[i..] is well-formed UTF-8
RECURSIVE from_utf8_ok(_, _)
from_utf8_ok(s, i) ==
    LET n == Len(s)
        b == s[i]
        Cont(k) == i + k <= n /\ s[i + k] \in 128..191
    IN  IF i > n THEN TRUE
        ELSE CASE b < 128 -> from_utf8_ok(s, i + 1)
               [] b \in 194..223 -> Cont(1) /\ from_utf8_ok(s, i + 2)
               [] b = 224 -> i + 1 <= n /\ s[i + 1] \in 160..191 /\ Cont(2)
                             /\ from_utf8_ok(s, i + 3)
               [] b \in (225..236) \cup {238, 239} ->
                             Cont(1) /\ Cont(2) /\ from_utf8_ok(s, i + 3)
               [] b = 237 -> i + 1 <= n /\ s[i + 1] \in 128..159 /\ Cont(2)
                             /\ from_utf8_ok(s, i + 3)
               [] b = 240 -> i + 1 <= n /\ s[i + 1] \in 144..191 /\ Cont(2) /\ Cont(3)
                             /\ from_utf8_ok(s, i + 4)
               [] b \in 241..243 -> Cont(1) /\ Cont(2) /\ Cont(3)
                             /\ from_utf8_ok(s, i + 4)
               [] b = 244 -> i + 1 <= n /\ s[i + 1] \in 128..143 /\ Cont(2) /\ Cont(3)
                             /\ from_utf8_ok(s, i + 4)
               [] OTHER -> FALSE

\* a String is kept as its UTF-8 bytes
get_ascii(tag) ==
    LET new_data == SubSeq(tag.data, 1, Len(tag.data) - 1)   \* pop(): no-op on empty
    IN  IF tag.datatype = "Ascii"
        THEN IF from_utf8_ok(new_data, 1) THEN Ok(new_data)
             ELSE invalid_format("invalid string")
        ELSE invalid_format("tag has invalid datatype")

----------------------------------------------------------------------------
(* Tag::load_all *)

\* HashMap::insert: a later value replaces an earlier one under the same key
HashMap_insert(map, key, value) ==
    [k \in (DOMAIN map) \cup {key} |-> IF k = key THEN value ELSE map[k]]

\* lines 168..199: the loop over the directory entries, `remaining` of them left
RECURSIVE load_all_entries(_, _, _, _, _, _, _)
load_all_entries(buf, cur, byte_order, remaining, offset, fields, data_offsets) ==
    IF remaining = 0
    THEN Ok([cur |-> cur, offset |-> offset, fields |-> fields,
             data_offsets |-> data_offsets])
    ELSE
    LET tag_id == read_u16(byte_order, buf, cur)
        tag_code == read_u16(byte_order, buf, cur + 2)
        tag_datatype == TagDatatype_new(tag_code.val)
        count_2 == read_u32(byte_order, buf, cur + 4)
        type_len == TagDatatype_len(tag_datatype.val)
        slot == read_u32(byte_order, buf, cur + 8)
        values_data == take_read_to_end(buf, cur + 8, 4)
        truncated == SubSeq(values_data, 1, Min(Len(values_data), type_len * count_2.val))
    IN  IF ~tag_id.ok THEN unexpected_eof("while reading tag")
        ELSE IF ~tag_code.ok THEN unexpected_eof("while reading tag_type")
        ELSE IF ~tag_datatype.ok THEN tag_datatype
        ELSE IF ~count_2.ok THEN unexpected_eof("while reading count_2")
        ELSE IF type_len * count_2.val > 4
        THEN IF ~slot.ok THEN slot
             ELSE load_all_entries(buf, cur + 12, byte_order, remaining - 1, offset + 12,
                      fields,
                      HashMap_insert(data_offsets, slot.val,
                                     <<tag_id.val, tag_datatype.val, count_2.val>>))
        ELSE load_all_entries(buf, cur + 8 + Len(values_data), byte_order, remaining - 1,
                      offset + 12,
                      Append(fields, Tag_new(tag_id.val, tag_datatype.val, truncated,
                                             byte_order)),
                      data_offsets)

\* lines 208..229: the deferred values, in ascending order of their offsets
RECURSIVE load_all_data(_, _, _, _, _, _)
load_all_data(buf, cur, byte_order, offset, fields, data_offsets) ==
    IF DOMAIN data_offsets = {} THEN Ok(fields)
    ELSE
    LET data_offset == CHOOSE k \in DOMAIN data_offsets :
                           \A j \in DOMAIN data_offsets : k <= j
        tag == data_offsets[data_offset][1]
        tag_datatype == data_offsets[data_offset][2]
        count == data_offsets[data_offset][3]
        empty_space == AsI32(data_offset) - AsI32(offset)
        skipped == IF empty_space > 0 THEN empty_space ELSE 0
        data_len == TagDatatype_len(tag_datatype) * count
        data == take_read_to_end(buf, cur + skipped, data_len)
        rest == [k \in (DOMAIN data_offsets) \ {data_offset} |-> data_offsets[k]]
    IN  IF empty_space > 0 /\ cur + empty_space > Len(buf)
        THEN unexpected_eof("read_u8")
        ELSE IF empty_space < 0 THEN invalid_format("overrun")
        ELSE load_all_data(buf, cur + skipped + Len(data), byte_order,
                           offset + skipped + data_len,
                           Append(fields, Tag_new(tag, tag_datatype, data, byte_order)),
                           rest)

load_all(buf, cur, offset, byte_order) ==
    LET num_fields == read_u16(byte_order, buf, cur)
        entries == load_all_entries(buf, cur + 2, byte_order, num_fields.val, offset + 2,
                                    <<>>, <<>>)
        first_ifd_offset == read_u32(byte_order, buf, entries.val.cur)
    IN  IF ~num_fields.ok THEN unexpected_eof("while reading num_fields")
        ELSE IF ~entries.ok THEN entries
        ELSE IF ~first_ifd_offset.ok THEN unexpected_eof("while reading first_ifd_offset")
        ELSE load_all_data(buf, entries.val.cur + 4, byte_order, entries.val.offset + 4,
                           entries.val.fields, entries.val.data_offsets)

----------------------------------------------------------------------------
(* TiffHeader::load and ExifSection::load *)

TiffHeader_load(buf, cur) ==
    LET byte_order_id == read_u16("LittleEndian", buf, cur)
        byte_order == CASE byte_order_id.val = 18761 -> Ok("LittleEndian")
                        [] byte_order_id.val = 19789 -> Ok("BigEndian")
                        [] OTHER -> invalid_format("unknown byte order id")
        tiff_id == read_u16(byte_order.val, buf, cur + 2)
        zeroth_ifd_offset == read_u32(byte_order.val, buf, cur + 4)
    IN  IF ~byte_order_id.ok THEN unexpected_eof("while reading byte order")
        ELSE IF ~byte_order.ok THEN byte_order
        ELSE IF ~tiff_id.ok THEN unexpected_eof("while reading tiff id")
        ELSE IF ~zeroth_ifd_offset.ok THEN unexpected_eof("while reading zeroth IFD offset")
        ELSE IF tiff_id.val = 42
             THEN Ok([byte_order |-> byte_order.val,
                      zeroth_ifd_offset |-> zeroth_ifd_offset.val])
             ELSE invalid_format("unknown tiff id")

ExifIdentifier == <<69, 120, 105, 102, 0, 0>>

ExifSection_load(buf) ==
    LET identifier_code == take_read_to_end(buf, 0, 6)
        tiff_header == TiffHeader_load(buf, 6)
        fields == load_all(buf, 14, 8, tiff_header.val.byte_order)
    IN  IF Len(identifier_code) # 6
        THEN unexpected_eof("while reading identifier code in exif segment")
        ELSE IF identifier_code # ExifIdentifier THEN invalid_format("not an exif segment")
        ELSE IF ~tiff_header.ok THEN tiff_header
        ELSE IF ~fields.ok THEN fields
        ELSE Ok([zeroth_ifd |-> fields.val])

----------------------------------------------------------------------------
(* Metadata::load: the fold over the zeroth IFD (lines 353..362) *)

RECURSIVE zeroth_ifd_fold(_, _)
zeroth_ifd_fold(fields, acc) ==
    IF fields = <<>> THEN Ok(acc)
    ELSE
    LET ifd_field == Head(fields)
        short == get_short(ifd_field)
        ascii == get_ascii(ifd_field)
    IN  CASE ifd_field.id = 274 ->
               IF short.ok
               THEN zeroth_ifd_fold(Tail(fields),
                        [acc EXCEPT !.orientation = Orientation_new(short.val)])
               ELSE short
          [] ifd_field.id = 306 ->
               IF ascii.ok
               THEN zeroth_ifd_fold(Tail(fields), [acc EXCEPT !.date_time = Some(ascii.val)])
               ELSE ascii
          [] ifd_field.id = 271 ->
               IF ascii.ok
               THEN zeroth_ifd_fold(Tail(fields), [acc EXCEPT !.make = Some(ascii.val)])
               ELSE ascii
          [] ifd_field.id = 272 ->
               IF ascii.ok
               THEN zeroth_ifd_fold(Tail(fields), [acc EXCEPT !.model = Some(ascii.val)])
               ELSE ascii
          [] OTHER -> zeroth_ifd_fold(Tail(fields), acc)

----------------------------------------------------------------------------
(* Metadata::load: marker framing (lines 313..334) *)

\* BufReadExt::skip_until: bytes consumed up to and including the first delim,
\* or up to the end of the buffer when there is none
skip_until(buf, cur, delim) ==
    LET found == {i \in (cur + 1)..Len(buf) : buf[i] = delim}
    IN  IF found = {} THEN Len(buf) - cur
        ELSE (CHOOSE i \in found : \A j \in found : i <= j) - cur

Running == [kind |-> "Running", val |-> None]

Returned(r) == [kind |-> IF r.ok THEN "Ok" ELSE "Err", val |-> r.val]

Panicked(why) == [kind |-> "Panic", val |-> why]

MarkerAt == pos + skip_until(input, pos, 255)

MarkerType == read_u8(input, MarkerAt)

has_size(m) == ~(m \in 208..217)

WireSize == read_u16("BigEndian", input, MarkerAt + 1)

\* u16 subtraction of a build without overflow checks
SizeOf(m) == IF has_size(m) THEN (WireSize.val - 2) % 65536 ELSE 0

PayloadAt(m) == IF has_size(m) THEN MarkerAt + 3 ELSE MarkerAt + 1

Buffer(m) == take_read_to_end(input, PayloadAt(m), SizeOf(m))

\* the reader has found a marker of type m and buffered its payload
Framed(m) ==
    /\ result.kind = "Running"
    /\ skip_until(input, pos, 255) # 0
    /\ MarkerType.ok
    /\ MarkerType.val = m
    /\ m # 0
    /\ has_size(m) => WireSize.ok
    /\ marker_type' = m
    /\ size' = SizeOf(m)
    /\ segment' = Buffer(m)
    /\ pos' = PayloadAt(m) + Len(Buffer(m))

Metadata(d, o, dt, mk, md) ==
    [dimensions |-> [width |-> d[1], height |-> d[2]], orientation |-> o,
     date_time |-> dt, make |-> mk, model |-> md]

----------------------------------------------------------------------------
(* Metadata::load: one action per way an iteration of the scan loop can go *)

\* line 313: the stream ends before any byte is skipped
SearchEof ==
    /\ result.kind = "Running"
    /\ skip_until(input, pos, 255) = 0
    /\ result' = Returned(unexpected_eof("when searching for a marker"))
    /\ UNCHANGED <<input, pos, dimensions, orientation, date_time, make, model,
                   marker_type, size, segment, exif_section>>

\* line 318: the stream ends where the marker type is expected
MarkerTypeEof ==
    /\ result.kind = "Running"
    /\ skip_until(input, pos, 255) # 0
    /\ ~MarkerType.ok
    /\ pos' = MarkerAt
    /\ result' = Returned(unexpected_eof("when reading marker type"))
    /\ UNCHANGED <<input, dimensions, orientation, date_time, make, model,
                   marker_type, size, segment, exif_section>>

\* line 319: 0xFF 0x00 is skipped
StuffedByte ==
    /\ result.kind = "Running"
    /\ skip_until(input, pos, 255) # 0
    /\ MarkerType.ok
    /\ MarkerType.val = 0
    /\ marker_type' = 0
    /\ pos' = MarkerAt + 1
    /\ UNCHANGED <<input, dimensions, orientation, date_time, make, model,
                   size, segment, exif_section, result>>

\* line 328: the stream ends inside the size field
SizeEof ==
    /\ result.kind = "Running"
    /\ skip_until(input, pos, 255) # 0
    /\ MarkerType.ok
    /\ MarkerType.val # 0
    /\ has_size(MarkerType.val)
    /\ ~WireSize.ok
    /\ marker_type' = MarkerType.val
    /\ pos' = MarkerAt + 1
    /\ result' = Returned(unexpected_eof("when reading marker payload size"))
    /\ UNCHANGED <<input, dimensions, orientation, date_time, make, model,
                   size, segment, exif_section>>

\* line 328: size - 2 on a u16 below 2, in a build with overflow checks
SizeUnderflow ==
    /\ result.kind = "Running"
    /\ skip_until(input, pos, 255) # 0
    /\ MarkerType.ok
    /\ MarkerType.val # 0
    /\ has_size(MarkerType.val)
    /\ WireSize.ok
    /\ WireSize.val < 2
    /\ marker_type' = MarkerType.val
    /\ pos' = MarkerAt + 3
    /\ result' = Panicked("attempt to subtract with overflow")
    /\ UNCHANGED <<input, dimensions, orientation, date_time, make, model,
                   size, segment, exif_section>>

\* sof_dimensions with width and height taken in wire order
sof_dimensions_swapped(buf) ==
    LET h == read_u16("BigEndian", buf, 1)
        w == read_u16("BigEndian", buf, 3)
    IN  IF ~read_u8(buf, 0).ok THEN unexpected_eof("when skipping to dimensions data")
        ELSE IF ~h.ok THEN unexpected_eof("when reading height")
        ELSE IF ~w.ok THEN unexpected_eof("when reading width")
        ELSE Ok(<<h.val, w.val>>)

\* lines 340..343: the dimensions read from the payload of a start-of-frame segment
sof_dimensions(buf) ==
    LET h == read_u16("BigEndian", buf, 1)
        w == read_u16("BigEndian", buf, 3)
    IN  IF ~read_u8(buf, 0).ok THEN unexpected_eof("when skipping to dimensions data")
        ELSE IF ~h.ok THEN unexpected_eof("when reading height")
        ELSE IF ~w.ok THEN unexpected_eof("when reading width")
        ELSE Ok(<<w.val, h.val>>)

\* lines 337..345
StartOfFrame ==
    \E m \in {192, 194} :
        /\ Framed(m)
        /\ LET read == sof_dimensions(segment')
           IN  IF read.ok
               THEN /\ dimensions' = Some(read.val)
                    /\ UNCHANGED result
               ELSE /\ result' = Returned(read)
                    /\ UNCHANGED dimensions
        /\ UNCHANGED <<input, orientation, date_time, make, model, exif_section>>

\* exif_match returning the error of ExifSection::load instead of dropping it
exif_match_propagating(loaded, before) ==
    LET folded == zeroth_ifd_fold(loaded.val.zeroth_ifd, before)
    IN  IF ~loaded.ok THEN [acc |-> before, returned |-> Returned(loaded)]
        ELSE IF ~folded.ok
        THEN [acc |-> before, returned |-> Returned(folded)]
        ELSE [acc |-> folded.val, returned |-> Running]

\* lines 351..367: what the scan does with the result of ExifSection::load
exif_match(loaded, before) ==
    LET folded == zeroth_ifd_fold(loaded.val.zeroth_ifd, before)
    IN  IF ~loaded.ok THEN [acc |-> before, returned |-> Running]
        ELSE IF ~folded.ok
        THEN [acc |-> before, returned |-> Returned(folded)]
        ELSE [acc |-> folded.val, returned |-> Running]

\* lines 346..368
App1 ==
    /\ Framed(225)
    /\ exif_section' = Some(ExifSection_load(segment'))
    /\ LET before == [orientation |-> orientation, date_time |-> date_time,
                      make |-> make, model |-> model]
           after == exif_match(ExifSection_load(segment'), before)
       IN  /\ orientation' = after.acc.orientation
           /\ date_time' = after.acc.date_time
           /\ make' = after.acc.make
           /\ model' = after.acc.model
           /\ result' = after.returned
    /\ UNCHANGED <<input, dimensions>>

\* lines 369..371 and 375..381
EndOfImage ==
    /\ Framed(217)
    /\ result' = IF dimensions = None
                 THEN Panicked("called Option::unwrap() on a None value")
                 ELSE Returned(Ok(Metadata(dimensions[1], orientation, date_time,
                                           make, model)))
    /\ UNCHANGED <<input, dimensions, orientation, date_time, make, model, exif_section>>

\* line 372
OtherMarker ==
    /\ result.kind = "Running"
    /\ skip_until(input, pos, 255) # 0
    /\ MarkerType.ok
    /\ MarkerType.val \notin {0, 192, 194, 225, 217}
    /\ Framed(MarkerType.val)
    /\ UNCHANGED <<input, dimensions, orientation, date_time, make, model,
                   exif_section, result>>

----------------------------------------------------------------------------
(* Input streams: byte streams built from JPEG segments and Exif blocks *)

\* most entries in a generated directory
MaxEntries == 2

\* most pieces in a generated stream of framing cases
MaxPieces == 3

RECURSIVE Flatten(_)
Flatten(seqs) == IF seqs = <<>> THEN <<>> ELSE Head(seqs) \o Flatten(Tail(seqs))

SeqsUpTo(S, n) == UNION {[1..k -> S] : k \in 0..n}

u16_bytes(byte_order, v) ==
    IF byte_order = "LittleEndian" THEN <<v % 256, v \div 256>>
    ELSE <<v \div 256, v % 256>>

u32_bytes(byte_order, v) ==
    IF byte_order = "LittleEndian"
    THEN <<v % 256, (v \div 256) % 256, (v \div 65536) % 256, v \div 16777216>>
    ELSE <<v \div 16777216, (v \div 65536) % 256, (v \div 256) % 256, v % 256>>

ByteOrders == {"LittleEndian", "BigEndian"}

\* a directory entry whose 4-byte slot holds the value
Inline(id, code, count, raw) ==
    [id |-> id, code |-> code, count |-> count, defer |-> FALSE, raw |-> raw, rel |-> 0]

\* a directory entry whose slot holds an offset, rel bytes into the data area
Deferred(id, code, count, rel) ==
    [id |-> id, code |-> code, count |-> count, defer |-> TRUE, raw |-> <<>>, rel |-> rel]

\* offset of the data area of a directory of n entries, from the TIFF header
DataStart(n) == 8 + 2 + 12 * n + 4

EntryBytes(byte_order, e, n) ==
    u16_bytes(byte_order, e.id) \o u16_bytes(byte_order, e.code)
    \o u32_bytes(byte_order, e.count)
    \o (IF e.defer THEN u32_bytes(byte_order, DataStart(n) + e.rel) ELSE e.raw)

TiffHeaderBytes(byte_order) ==
    (IF byte_order = "LittleEndian" THEN <<73, 73>> ELSE <<77, 77>>)
    \o u16_bytes(byte_order, 42) \o u32_bytes(byte_order, 8)

DirectoryBytes(byte_order, entries) ==
    u16_bytes(byte_order, Len(entries))
    \o Flatten([i \in 1..Len(entries) |-> EntryBytes(byte_order, entries[i], Len(entries))])
    \o u32_bytes(byte_order, 0)

ExifPayload(byte_order, entries, data) ==
    ExifIdentifier \o TiffHeaderBytes(byte_order) \o DirectoryBytes(byte_order, entries) \o data

\* "ACME\0", "D700\0", "Z\0"
DataArea == <<65, 67, 77, 69, 0, 68, 55, 48, 48, 0, 90, 0>>

DataLens == {0, 7, 12}

OrientationEntry == Inline(274, 3, 1, <<6, 0, 0, 0>>)

MakeEntry == Deferred(271, 2, 5, 0)

\* entries combined freely into directories
ComboEntries ==
    { MakeEntry,
      Deferred(272, 2, 5, 5),
      Deferred(272, 2, 5, 0),
      Deferred(306, 2, 6, 2),
      Deferred(256, 4, 2, -4),
      OrientationEntry,
      Inline(272, 2, 3, <<65, 66, 0, 0>>) }

\* entries tried alone: orientation values, accessor and datatype cases
SingleEntries ==
    { Inline(274, 3, 1, <<v, 0, 0, 0>>) : v \in 0..9 }
    \cup { Inline(274, 3, 1, <<0, v, 0, 0>>) : v \in 0..9 }
    \cup { Inline(274, 3, 1, <<1, 1, 0, 0>>),
           Inline(274, 4, 1, <<6, 0, 0, 0>>),
           Inline(274, 3, 2, <<6, 0, 6, 0>>),
           Inline(274, 3, 0, <<6, 0, 0, 0>>),
           Deferred(274, 3, 3, 0),
           Inline(306, 2, 2, <<255, 0, 0, 0>>),
           Inline(306, 2, 3, <<195, 169, 0, 0>>),
           Inline(271, 3, 1, <<1, 0, 0, 0>>),
           Deferred(271, 5, 1, 0),
           Inline(272, 2, 0, <<0, 0, 0, 0>>),
           Inline(272, 2, 4, <<65, 66, 67, 68>>),
           Inline(256, 1, 1, <<9, 0, 0, 0>>),
           Inline(256, 6, 1, <<9, 0, 0, 0>>) }

ComboPayloads ==
    { ExifPayload(bo, es, SubSeq(DataArea, 1, n)) :
        bo \in ByteOrders, es \in SeqsUpTo(ComboEntries, MaxEntries), n \in DataLens }

SinglePayloads ==
    { ExifPayload(bo, <<e>>, DataArea) : bo \in ByteOrders, e \in SingleEntries }
    \cup { ExifPayload(bo, <<OrientationEntry, e>>, DataArea) :
             bo \in ByteOrders, e \in {Inline(271, 3, 1, <<1, 0, 0, 0>>),
                                       Inline(306, 2, 2, <<255, 0, 0, 0>>)} }

\* a well-formed block: orientation 6 and make "ACME"
GoodPayload == ExifPayload("LittleEndian", <<OrientationEntry, MakeEntry>>, DataArea)

TruncatedPayloads == { SubSeq(GoodPayload, 1, n) : n \in 0..Len(GoodPayload) }

CorruptHeaderPayloads ==
    { <<69, 120, 105, 102, 0, 1>> \o SubSeq(GoodPayload, 7, Len(GoodPayload)),
      ExifIdentifier \o <<73, 77>> \o SubSeq(GoodPayload, 9, Len(GoodPayload)),
      ExifIdentifier \o <<73, 73, 43, 0>> \o SubSeq(GoodPayload, 11, Len(GoodPayload)),
      ExifIdentifier \o <<77, 77, 42, 0>> \o SubSeq(GoodPayload, 11, Len(GoodPayload)) }

Payloads == ComboPayloads \cup SinglePayloads \cup TruncatedPayloads
            \cup CorruptHeaderPayloads

SOI == <<255, 216>>

EOI == <<255, 217>>

SegmentBytes(m, payload) == <<255, m>> \o u16_bytes("BigEndian", Len(payload) + 2) \o payload

SofSegment(m, w, h, extra) ==
    SegmentBytes(m, <<8>> \o u16_bytes("BigEndian", h) \o u16_bytes("BigEndian", w) \o extra)

Dims == {<<100, 50>>, <<50, 100>>, <<511, 65280>>}

MinimalStreams ==
    { SOI \o SofSegment(m, d[1], d[2], extra) \o EOI :
        m \in {192, 194}, d \in Dims, extra \in {<<>>, <<3, 1, 34>>} }

ExifStreams ==
    { SOI \o SegmentBytes(225, p) \o SofSegment(192, 100, 50, <<>>) \o EOI : p \in Payloads }

\* the block under test comes after a frame and a well-formed block
LateExifStreams ==
    { SOI \o SofSegment(194, 50, 100, <<>>) \o SegmentBytes(225, GoodPayload)
          \o SegmentBytes(225, p) \o EOI : p \in Payloads }

Pieces ==
    { SOI, EOI,
      SofSegment(192, 100, 50, <<>>),
      <<255, 192, 0, 5, 8, 0, 50>>,
      <<255, 0>>,
      <<7>>,
      <<255>>,
      <<255, 224, 0, 4, 1, 2>>,
      <<255, 224, 0, 0>>,
      <<255, 254, 0, 1>>,
      <<255, 208>>,
      <<255, 224, 0>>,
      <<255, 224, 0, 9, 1>>,
      <<255, 225, 0, 4, 1, 2>> }

PieceStreams == { Flatten(ps) : ps \in SeqsUpTo(Pieces, MaxPieces) }

Streams == MinimalStreams \cup ExifStreams \cup LateExifStreams \cup PieceStreams

----------------------------------------------------------------------------
(* The call Metadata::load(input) *)

Init ==
    /\ input \in Streams
    /\ pos = 0
    /\ dimensions = None
    /\ orientation = "Unspecified"
    /\ date_time = None
    /\ make = None
    /\ model = None
    /\ marker_type = 0
    /\ size = 0
    /\ segment = <<>>
    /\ exif_section = None
    /\ result = Running

Next ==
    \/ SearchEof
    \/ MarkerTypeEof
    \/ StuffedByte
    \/ SizeEof
    \/ SizeUnderflow
    \/ StartOfFrame
    \/ App1
    \/ EndOfImage
    \/ OtherMarker

Spec == Init /\ [][Next]_vars

\* the call runs on: an enabled iteration of the loop is eventually taken
FairSpec == Spec /\ WF_vars(Next)

----------------------------------------------------------------------------
(* What an APP1 payload declares, read off its bytes by the layout of the    *)
(* Exif block: identifier at 1..6, TIFF header at 7..14, entry count at      *)
(* 15..16, entry i at 17 + 12 (i - 1), offsets counted from byte 7.          *)

Val16(byte_order, b0, b1) ==
    IF byte_order = "LittleEndian" THEN b0 + 256 * b1 ELSE 256 * b0 + b1

Val32(byte_order, b0, b1, b2, b3) ==
    IF byte_order = "LittleEndian"
    THEN b0 + 256 * b1 + 65536 * b2 + 16777216 * b3
    ELSE 16777216 * b0 + 65536 * b1 + 256 * b2 + b3

DeclaredOrder(p) ==
    IF p[7] = 73 /\ p[8] = 73 THEN "LittleEndian"
    ELSE IF p[7] = 77 /\ p[8] = 77 THEN "BigEndian"
    ELSE "none"

DeclaredCount(p) == Val16(DeclaredOrder(p), p[15], p[16])

DeclaredEntry(p, i) ==
    LET at == 16 + 12 * (i - 1)
        bo == DeclaredOrder(p)
    IN  [id |-> Val16(bo, p[at + 1], p[at + 2]),
         code |-> Val16(bo, p[at + 3], p[at + 4]),
         count |-> Val32(bo, p[at + 5], p[at + 6], p[at + 7], p[at + 8]),
         slot |-> SubSeq(p, at + 9, at + 12)]

\* the slot of a deferred entry, read as an offset
DeclaredOffset(p, i) ==
    LET slot == DeclaredEntry(p, i).slot
    IN  Val32(DeclaredOrder(p), slot[1], slot[2], slot[3], slot[4])

DatatypeCodes == {1, 2, 3, 4, 5, 7, 9, 10}

UnitSize(code) ==
    CASE code \in {1, 2, 7} -> 1
      [] code = 3 -> 2
      [] code \in {4, 9} -> 4
      [] code \in {5, 10} -> 8

DatatypeName(code) ==
    CASE code = 1 -> "Byte"
      [] code = 2 -> "Ascii"
      [] code = 3 -> "Short"
      [] code = 4 -> "Long"
      [] code = 5 -> "Rational"
      [] code = 7 -> "Undefined"
      [] code = 9 -> "SignedLong"
      [] code = 10 -> "SignedRational"

ByteLength(e) == UnitSize(e.code) * e.count

\* identifier, byte-order marker and magic are valid, and the directory with its
\* trailing next-IFD field lies within the payload, every datatype code known
DirectoryComplete(p) ==
    /\ Len(p) >= 16
    /\ SubSeq(p, 1, 6) = <<69, 120, 105, 102, 0, 0>>
    /\ DeclaredOrder(p) # "none"
    /\ Val16(DeclaredOrder(p), p[9], p[10]) = 42
    /\ Len(p) >= 16 + 12 * DeclaredCount(p) + 4
    /\ \A i \in 1..DeclaredCount(p) : DeclaredEntry(p, i).code \in DatatypeCodes

DeferredIndexes(p) == {i \in 1..DeclaredCount(p) : ByteLength(DeclaredEntry(p, i)) > 4}

InlineIndexes(p) == (1..DeclaredCount(p)) \ DeferredIndexes(p)

\* deferred entry j is resolved before deferred entry i
ResolvedBefore(p, j, i) ==
    \/ DeclaredOffset(p, j) < DeclaredOffset(p, i)
    \/ DeclaredOffset(p, j) = DeclaredOffset(p, i) /\ j < i

\* place of directory entry i in the returned list: inline entries in directory
\* order, then deferred entries in ascending order of offset
Place(p, i) ==
    IF i \in InlineIndexes(p)
    THEN Cardinality({j \in InlineIndexes(p) : j <= i})
    ELSE Cardinality(InlineIndexes(p))
         + Cardinality({j \in DeferredIndexes(p) : ResolvedBefore(p, j, i)}) + 1

\* the walk over the deferred entries still to resolve, cursor counted from the
\* TIFF header: "overrun" when an entry starts before the cursor, "eof" when the
\* gap before an entry or its value runs past the end of the payload, "done"
\* otherwise
RECURSIVE DeferredWalk(_, _, _)
DeferredWalk(p, todo, cursor) ==
    IF todo = {} THEN "done"
    ELSE LET i == CHOOSE k \in todo : \A j \in todo \ {k} : ResolvedBefore(p, k, j)
             offset == DeclaredOffset(p, i)
             length == ByteLength(DeclaredEntry(p, i))
         IN  IF offset < cursor THEN "overrun"
             ELSE IF 6 + offset + length > Len(p) THEN "eof"
             ELSE DeferredWalk(p, todo \ {i}, offset + length)

DirectoryEnd(p) == 8 + 2 + 12 * DeclaredCount(p) + 4

\* the last iteration of the scan ran ExifSection::load on `segment`
ExifTried ==
    /\ marker_type = 225
    /\ exif_section # None
    /\ result.kind # "Panic"
    /\ ~(result.kind = "Err" /\ result.val.why = "when reading marker payload size")

ExifLoaded == ExifTried /\ exif_section[1].ok

ExifFields == exif_section[1].val.zeroth_ifd

----------------------------------------------------------------------------
(* Claims *)

\* this step is an iteration of the scan that frames a marker of type m
FramingStep(m) ==
    /\ result.kind = "Running"
    /\ skip_until(input, pos, 255) # 0
    /\ MarkerType.ok
    /\ MarkerType.val = m
    /\ has_size(m) => WireSize.ok
    /\ result'.kind # "Panic" \/ ~has_size(m)
    /\ pos' # pos

Unchanged4 ==
    /\ orientation' = orientation
    /\ date_time' = date_time
    /\ make' = make
    /\ model' = model

\* the stream is start-of-image, one APP1 segment, a baseline frame, end-of-image
IsExifStream ==
    /\ Len(input) >= 6
    /\ SubSeq(input, 1, 4) = <<255, 216, 255, 225>>
    /\ Val16("BigEndian", input[5], input[6]) >= 2
    /\ SubSeq(input, 5 + Val16("BigEndian", input[5], input[6]), Len(input))
           \in { <<255, 192, 0, 7, 8>> \o <<d[2] \div 256, d[2] % 256, d[1] \div 256, d[1] % 256>>
                     \o <<255, 217>> : d \in Dims }

ExifStreamPayload == SubSeq(input, 7, 4 + Val16("BigEndian", input[5], input[6]))

ExifStreamDims ==
    LET n == Len(input)
    IN  [width |-> 256 * input[n - 3] + input[n - 2],
         height |-> 256 * input[n - 5] + input[n - 4]]

BadIdentifier(p) == Len(p) < 6 \/ SubSeq(p, 1, 6) # <<69, 120, 105, 102, 0, 0>>

BadTiffHeader(p) ==
    \/ Len(p) < 14
    \/ DeclaredOrder(p) = "none"
    \/ Val16(DeclaredOrder(p), p[9], p[10]) # 42

\* C1: when ExifSection::load fails on an APP1 payload (bad identifier, bad TIFF
\* header, any error of the IFD decoder) the scan goes on to the next marker with
\* dimensions, orientation, date-time, make and model as they were; and a stream
\* of start-of-image, such an APP1, a frame and end-of-image decodes to the
\* frame's dimensions with no Exif field set.
C1_ExifFailureSwallowed ==
    /\ [][ (FramingStep(225) /\ ~exif_section'[1].ok)
            => /\ Unchanged4
               /\ dimensions' = dimensions
               /\ result'.kind = "Running"
               /\ pos' = PayloadAt(225) + Len(segment') ]_vars
    /\ [][ (FramingStep(225) /\ (BadIdentifier(segment') \/ BadTiffHeader(segment')))
            => (~exif_section'[1].ok /\ result'.kind = "Running") ]_vars
    /\ [](  (IsExifStream /\ result.kind # "Running"
             /\ (BadIdentifier(ExifStreamPayload) \/ BadTiffHeader(ExifStreamPayload)
                 \/ ~exif_section[1].ok))
            => /\ result.kind = "Ok"
               /\ result.val = [dimensions |-> ExifStreamDims,
                                orientation |-> "Unspecified", date_time |-> None,
                                make |-> None, model |-> None] )

\* a failed Exif block after a well-formed one: the call returns the fields of the first
C1_Witness ==
    /\ result.kind = "Ok"
    /\ exif_section # None
    /\ ~exif_section[1].ok
    /\ exif_section[1].val.why = "not an exif segment"
    /\ result.val.make = Some(<<65, 67, 77, 69>>)
    /\ result.val.orientation = "Rotate90"

AccessorFails(tag) ==
    \/ tag.id = 274 /\ ~(tag.datatype = "Short" /\ Len(tag.data) = 2)
    \/ tag.id \in {306, 271, 272}
       /\ ~(tag.datatype = "Ascii"
            /\ from_utf8_ok(SubSeq(tag.data, 1, Len(tag.data) - 1), 1))

\* C2: a typed-accessor failure on a recognized tag of a decoded zeroth IFD never
\* fails the call: the scan goes on, and the call fails only with MissingDimensions
\* or with a read past the end of the stream.
C2_AccessorFailureSwallowed ==
    /\ (ExifLoaded /\ \E k \in 1..Len(ExifFields) : AccessorFails(ExifFields[k]))
           => result.kind = "Running"
    /\ result.kind = "Err" => result.val.kind \in {"UnexpectedEof", "MissingDimensions"}

\* C3: end-of-image reached with no start-of-frame seen returns the error
\* MissingDimensions.
C3_MissingDimensions ==
    (marker_type = 217 /\ dimensions = None)
        => (result.kind = "Err" /\ result.val.kind = "MissingDimensions")

\* the stream is start-of-image, one frame of type 0xC0 or 0xC2, end-of-image
IsMinimalStream ==
    /\ Len(input) >= 13
    /\ SubSeq(input, 1, 3) = <<255, 216, 255>>
    /\ input[4] \in {192, 194}
    /\ Val16("BigEndian", input[5], input[6]) >= 7
    /\ Len(input) = 6 + Val16("BigEndian", input[5], input[6])
    /\ SubSeq(input, Len(input) - 1, Len(input)) = <<255, 217>>

\* C4: a start-of-frame segment (0xC0 or 0xC2) with a payload of at least 5 bytes
\* sets dimensions to (width, height), height read from payload bytes 2..3 and
\* width from bytes 4..5, big-endian; the stream start-of-image, frame (w, h),
\* end-of-image decodes to (w, h), Unspecified, and no date-time, make or model.
C4_StartOfFrame ==
    /\ [][ \A m \in {192, 194} :
             (FramingStep(m) /\ Len(segment') >= 5)
               => /\ dimensions' = Some(<<256 * segment'[4] + segment'[5],
                                          256 * segment'[2] + segment'[3]>>)
                  /\ result'.kind = "Running"
                  /\ Unchanged4 ]_vars
    /\ [](  (IsMinimalStream /\ result.kind # "Running")
            => /\ result.kind = "Ok"
               /\ result.val = [dimensions |-> [width |-> 256 * input[10] + input[11],
                                                height |-> 256 * input[8] + input[9]],
                                orientation |-> "Unspecified", date_time |-> None,
                                make |-> None, model |-> None] )

C4_Witness ==
    /\ input = <<255, 216, 255, 192, 0, 7, 8, 0, 50, 0, 100, 255, 217>>
    /\ result.kind = "Ok"
    /\ result.val.dimensions = [width |-> 100, height |-> 50]
    /\ result.val.orientation = "Unspecified"

\* C5: whenever a deferred entry, taken in ascending order of offset with the
\* cursor starting after the next-IFD field and advancing over every gap and
\* every value, starts before the cursor, the IFD decoder fails with
\* InvalidFormat("overrun").
C5_Overrun ==
    (ExifTried /\ DirectoryComplete(segment)
     /\ DeferredWalk(segment, DeferredIndexes(segment), DirectoryEnd(segment)) = "overrun")
        => /\ ~exif_section[1].ok
           /\ exif_section[1].val.kind = "InvalidFormat"
           /\ exif_section[1].val.why = "overrun"

\* C6: every entry a successful IFD decode returns has exactly
\* unitSize(datatype) x count raw bytes, count being that of its directory entry.
C6_RawLength ==
    (ExifLoaded /\ DirectoryComplete(segment))
        => \A k \in 1..Len(ExifFields) :
             \E i \in 1..DeclaredCount(segment) :
                LET e == DeclaredEntry(segment, i)
                IN  /\ e.id = ExifFields[k].id
                    /\ DatatypeName(e.code) = ExifFields[k].datatype
                    /\ Len(ExifFields[k].data) = ByteLength(e)

OrientationTable ==
    <<"Normal", "MirrorHorizontal", "Rotate180", "FlipVertical",
      "Transpose", "Rotate90", "Transverse", "Rotate270">>

OrientationIndexes(p) == {i \in 1..DeclaredCount(p) : DeclaredEntry(p, i).id = 274}

LastOrientation(p) ==
    DeclaredEntry(p, CHOOSE i \in OrientationIndexes(p) :
                         \A j \in OrientationIndexes(p) : j <= i)

\* C7: after a well-formed Exif block whose zeroth IFD holds the orientation tag
\* as a Short of count 1, orientation is the table entry of the value of the
\* tag's 2 raw bytes in the byte order the block's TIFF header declares
\* (Unspecified outside 1..8).
C7_OrientationByteOrder ==
    (ExifLoaded /\ result.kind = "Running" /\ DirectoryComplete(segment)
     /\ OrientationIndexes(segment) # {}
     /\ LastOrientation(segment).code = 3 /\ LastOrientation(segment).count = 1)
        => LET e == LastOrientation(segment)
               v == Val16(DeclaredOrder(segment), e.slot[1], e.slot[2])
           IN  orientation = IF v \in 1..8 THEN OrientationTable[v] ELSE "Unspecified"

\* raw bytes 00 06 under the big-endian marker give Rotate90
C7_Witness ==
    /\ ExifLoaded
    /\ result.kind = "Running"
    /\ DirectoryComplete(segment)
    /\ DeclaredOrder(segment) = "BigEndian"
    /\ OrientationIndexes(segment) # {}
    /\ LastOrientation(segment).slot = <<0, 6, 0, 0>>
    /\ orientation = "Rotate90"

\* C8: for every marker framed, the payload length is 0 for the types
\* 0xD0..0xD9 and the wire length minus 2, without wrap-around, for the others,
\* and exactly that many payload bytes are consumed (where the stream has them).
C8_PayloadLength ==
    [][ (result.kind = "Running" /\ skip_until(input, pos, 255) # 0
         /\ MarkerType.ok /\ MarkerType.val # 0
         /\ (has_size(MarkerType.val) => WireSize.ok))
          => LET m == MarkerType.val
             IN  /\ size' = IF m \in 208..217 THEN 0 ELSE WireSize.val - 2
                 /\ PayloadAt(m) + size' <= Len(input) => pos' = PayloadAt(m) + size' ]_vars

\* C9: the call terminates: every iteration of the scan ends the call or
\* consumes at least one byte, and the call ends with one Metadata or one error.
C9_Terminates ==
    /\ [][ pos' > pos \/ result'.kind # "Running" ]_vars
    /\ [](result.kind \in {"Running", "Ok", "Err"})
    /\ <>(result.kind \in {"Ok", "Err"})

\* the part of C9 the loop does guarantee: the reader never passes the end of
\* the finite stream and every iteration ends the call or moves the reader on
Progress ==
    /\ [][ pos' > pos \/ result'.kind # "Running" ]_vars
    /\ [](pos <= Len(input))

\* C10: a successful IFD decode of a directory declaring n entries returns n
\* entries, the inline ones in directory order and then the deferred ones in
\* ascending order of offset, each with its entry's tag id and datatype.
C10_AllEntries ==
    (ExifLoaded /\ DirectoryComplete(segment))
        => /\ Len(ExifFields) = DeclaredCount(segment)
           /\ \A i \in 1..DeclaredCount(segment) :
                /\ Place(segment, i) <= Len(ExifFields)
                /\ ExifFields[Place(segment, i)].id = DeclaredEntry(segment, i).id
                /\ ExifFields[Place(segment, i)].datatype
                       = DatatypeName(DeclaredEntry(segment, i).code)

====
